---- MODULE Spec2Model ----
(***************************************************************************)
(* Profile management of matchmyskills: the profiles table with its        *)
(* row-level policies and trigger, the helpers of lib/profileHelpers.js    *)
(* (uploadResume, saveProfile, loadProfile, getCurrentUserWithProfile)     *)
(* and the ProfileForm component (loadUserData, handleFileChange,          *)
(* handleInputChange, handleSubmit, handleSignOut, render).                *)
(*                                                                         *)
(* Values.  A table row and a profileData object are functions from column *)
(* names to values; a column that is SQL NULL (a key that is absent) is    *)
(* not in the DOMAIN.  JS null is NoRow / NoFile / NoUser.  Strings are    *)
(* TLA+ strings, except the skills / interests texts, which are sequences  *)
(* of one-character strings so that split / trim / join are computed.      *)
(***************************************************************************)
EXTENDS Integers, Sequences, FiniteSets, TLC

VARIABLES
    auth,               \* session -> signed-in identity, or NoUser
    profiles,           \* the profiles table: a set of rows
    storage,            \* the resumes bucket: the set of object keys
    now,                \* the database server's clock, NOW()
    lastCall,           \* the last helper call: inputs, backend requests issued, result
    loading, saving, user, profile, error, success,
    resumeFile, existingResumeUrl, formData,      \* ProfileForm's useState cells
    pc,                 \* ProfileForm: which handler step runs next
    sub,                \* the running (or last) handleSubmit: its closure and its calls
    activation          \* what loadUserData got from getCurrentUserWithProfile

backend == <<auth, profiles, storage, now>>
form == <<loading, saving, user, profile, error, success, resumeFile,
          existingResumeUrl, formData, pc, sub, activation>>
vars == <<auth, profiles, storage, now, lastCall, loading, saving, user, profile,
          error, success, resumeFile, existingResumeUrl, formData, pc, sub, activation>>

----------------------------------------------------------------------------
(* Bounds *)

MaxTime == 1            \* clocks run over 0..MaxTime
MaxSubmits == 2         \* submissions of the form in one run
MaxLen == 4             \* characters in a text typed into skills or interests

Times == 0 .. MaxTime

----------------------------------------------------------------------------
(* Values *)

Identities == {"A", "B"}
Sessions == {"s1", "s2"}
NoUser == "null"
NoRow == <<>>
NoFile == <<>>

Has(f, k) == k \in DOMAIN f

\* {...a, ...b}: the keys of b win
Spread(a, b) == b @@ a

allowedTypes ==
    {"application/pdf", "application/msword",
     "application/vnd.openxmlformats-officedocument.wordprocessingml.document"}

maxSize == 10 * 1024 * 1024

----------------------------------------------------------------------------
(* The backend: auth, the profiles table, the resumes bucket *)

\* what one backend request may do besides answering: answer with an error
\* (connectivity, quota, server) or make the client library throw
Outcomes == {"ok", "error", "throw"}
BackendMessage == "network error"
ThrownMessage == "fetch failed"

\* supabase.auth.getUser(): the session's identity, or no user with an error
getUser(s, ao) ==
    IF ao = "ok" /\ auth[s] # NoUser
    THEN [user |-> auth[s], error |-> FALSE]
    ELSE [user |-> NoUser, error |-> TRUE]

\* auth.uid() = user_id; auth.uid() is NULL without a session, and NULL = x is not true
PolicyInsertCheck(uid, row) == uid # NoUser /\ Has(row, "user_id") /\ uid = row.user_id
PolicySelectUsing(uid, row) == uid # NoUser /\ uid = row.user_id
PolicyUpdateUsing(uid, row) == uid # NoUser /\ uid = row.user_id

\* id UUID PRIMARY KEY DEFAULT gen_random_uuid(): an id no row has (rows are never deleted)
NewId(table) == Cardinality(table) + 1

\* BEFORE UPDATE trigger: NEW.updated_at = NOW()
update_updated_at_column(new, nowT) == [new EXCEPT !["updated_at"] = nowT]

\* mutant: no uniqueness on user_id, so no payload ever collides
ConflictRows_none(table, row) == {}

\* the rows a payload collides with under user_id UUID UNIQUE
ConflictRows(table, row) == {r \in table : r.user_id = row.user_id}

RowsOf(table, u) == {r \in table : r.user_id = u}

\* INSERT ... ON CONFLICT (user_id) DO UPDATE SET <the payload's columns> RETURNING *,
\* run as uid at server time nowT: [table, error, data]
Upsert(table, uid, row, nowT) ==
    IF ~PolicyInsertCheck(uid, row)
    THEN [table |-> table, error |-> "new row violates row-level security policy",
          data |-> <<>>]
    ELSE IF ConflictRows(table, row) # {}
    THEN LET old == CHOOSE r \in ConflictRows(table, row) : TRUE
             new == update_updated_at_column(Spread(old, row), nowT)
         IN  IF ~PolicyUpdateUsing(uid, old)
             THEN [table |-> table, error |-> "new row violates row-level security policy",
                   data |-> <<>>]
             ELSE [table |-> (table \ {old}) \cup {new}, error |-> "", data |-> <<new>>]
    ELSE LET new == Spread(row, "id" :> NewId(table))
         IN  [table |-> table \cup {new}, error |-> "", data |-> <<new>>]

\* select('*').eq('user_id', userId).single() run as uid: the rows the SELECT policy
\* lets uid see; single() wants exactly one and answers PGRST116 otherwise
SelectSingle(table, uid, userId) ==
    LET rows == {r \in RowsOf(table, userId) : PolicySelectUsing(uid, r)}
    IN  IF Cardinality(rows) = 1
        THEN [data |-> CHOOSE r \in rows : TRUE, code |-> "", message |-> ""]
        ELSE [data |-> NoRow, code |-> "PGRST116",
              message |-> "JSON object requested, multiple (or no) rows returned"]

\* storage policy: bucket_id = 'resumes' AND auth.uid()::text = (storage.foldername(name))[1]
PolicyStorageInsert(uid, userId) == uid # NoUser /\ uid = userId

\* storage.from('resumes').upload(fileName, file, {upsert: false}) run as uid
StorageUpload(objects, uid, userId, fileName) ==
    IF ~PolicyStorageInsert(uid, userId)
    THEN [objects |-> objects, error |-> "new row violates row-level security policy"]
    ELSE IF fileName \in objects
    THEN [objects |-> objects, error |-> "The resource already exists"]
    ELSE [objects |-> objects \cup {fileName}, error |-> ""]

\* storage.from('resumes').getPublicUrl(fileName).publicUrl
getPublicUrl(fileName) == "https://storage/resumes/" \o fileName

----------------------------------------------------------------------------
(* lib/profileHelpers.js.  Each helper is an operator over the current     *)
(* backend state: it gives the result the caller gets, the backend         *)
(* requests it issued, in order, and the backend state it leaves.          *)

\* !allowedTypes.includes(file.type)
InvalidType(file) == file.type \notin allowedTypes

\* mutant: a file of exactly maxSize is refused as well
TooLarge_atLimit(file) == file.size >= maxSize

\* file.size > maxSize
TooLarge(file) == file.size > maxSize

\* file.name.split('.').pop(); a name is kept as its '.'-separated parts
fileExtension(file) == file.name[Len(file.name)]

\* `${userId}/${timestamp}.${fileExtension}`
FileName(file, userId, timestamp) ==
    userId \o "/" \o ToString(timestamp) \o "." \o fileExtension(file)

\* uploadResume(file, userId) in session s, Date.now() = timestamp, the storage
\* request ending as so
uploadResume(s, file, userId, timestamp, so) ==
    IF InvalidType(file)
    THEN [result |-> [success |-> FALSE,
                      error |-> "Invalid file type. Please upload a PDF, DOC, or DOCX file."],
          issued |-> <<>>, storage |-> storage]
    ELSE IF TooLarge(file)
    THEN [result |-> [success |-> FALSE,
                      error |-> "File size too large. Please upload a file smaller than 10MB."],
          issued |-> <<>>, storage |-> storage]
    ELSE LET fileName == FileName(file, userId, timestamp)
             up == StorageUpload(storage, auth[s], userId, fileName)
         IN  IF so = "throw"
             THEN [result |-> [success |-> FALSE,
                               error |-> "Upload failed: " \o ThrownMessage],
                   issued |-> <<"storage.upload">>, storage |-> storage]
             ELSE IF so = "error"
             THEN [result |-> [success |-> FALSE,
                               error |-> "Upload failed: " \o BackendMessage],
                   issued |-> <<"storage.upload">>, storage |-> storage]
             ELSE IF up.error # ""
             THEN [result |-> [success |-> FALSE, error |-> "Upload failed: " \o up.error],
                   issued |-> <<"storage.upload">>, storage |-> storage]
             ELSE [result |-> [success |-> TRUE, url |-> getPublicUrl(fileName)],
                   issued |-> <<"storage.upload", "storage.getPublicUrl">>,
                   storage |-> up.objects]

\* mutant: the authentication check is missing
NotAuthenticated_never(u) == FALSE

\* userError || !user
NotAuthenticated(u) == u.error \/ u.user = NoUser

\* { user_id: user.id, ...profileData, updated_at: new Date().toISOString() }
profileToSave(userId, profileData, clientTime) ==
    Spread(Spread("user_id" :> userId, profileData), "updated_at" :> clientTime)

\* saveProfile(profileData) in session s, getUser ending as ao, new Date() = clientTime,
\* the upsert request ending as dbo
saveProfile(s, profileData, ao, clientTime, dbo) ==
    IF ao = "throw"
    THEN [result |-> [success |-> FALSE,
                      error |-> "Failed to save profile: " \o ThrownMessage],
          issued |-> <<"auth.getUser">>, sent |-> NoRow, profiles |-> profiles]
    ELSE IF NotAuthenticated(getUser(s, ao))
    THEN [result |-> [success |-> FALSE, error |-> "User not authenticated"],
          issued |-> <<"auth.getUser">>, sent |-> NoRow, profiles |-> profiles]
    ELSE LET row == profileToSave(getUser(s, ao).user, profileData, clientTime)
             up == Upsert(profiles, auth[s], row, now)
             calls == <<"auth.getUser", "profiles.upsert">>
         IN  IF dbo = "throw"
             THEN [result |-> [success |-> FALSE,
                               error |-> "Failed to save profile: " \o ThrownMessage],
                   issued |-> calls, sent |-> row, profiles |-> profiles]
             ELSE IF dbo = "error"
             THEN [result |-> [success |-> FALSE,
                               error |-> "Failed to save profile: " \o BackendMessage],
                   issued |-> calls, sent |-> row, profiles |-> profiles]
             ELSE IF up.error # ""
             THEN [result |-> [success |-> FALSE,
                               error |-> "Failed to save profile: " \o up.error],
                   issued |-> calls, sent |-> row, profiles |-> profiles]
             ELSE [result |-> [success |-> TRUE, data |-> up.data[1]],
                   issued |-> calls, sent |-> row, profiles |-> up.table]

\* loadProfile(userId) in session s, the select request ending as dbo
loadProfile(s, userId, dbo) ==
    LET got == SelectSingle(profiles, auth[s], userId)
    IN  IF dbo = "throw"
        THEN [result |-> [success |-> FALSE,
                          error |-> "Failed to load profile: " \o ThrownMessage],
              issued |-> <<"profiles.select">>]
        ELSE IF dbo = "error"
        THEN [result |-> [success |-> FALSE,
                          error |-> "Failed to load profile: " \o BackendMessage],
              issued |-> <<"profiles.select">>]
        ELSE IF got.code = "PGRST116"
        THEN [result |-> [success |-> TRUE, data |-> NoRow],
              issued |-> <<"profiles.select">>]
        ELSE [result |-> [success |-> TRUE, data |-> got.data],
              issued |-> <<"profiles.select">>]

\* mutant: the message is wrapped a second time
ForwardedError_wrapped(profileResult) == "Failed to get user data: " \o profileResult.error

\* profileResult.error, as getCurrentUserWithProfile hands it on
ForwardedError(profileResult) == profileResult.error

\* getCurrentUserWithProfile() in session s
getCurrentUserWithProfile(s, ao, dbo) ==
    IF ao = "throw"
    THEN [result |-> [success |-> FALSE,
                      error |-> "Failed to get user data: " \o ThrownMessage],
          issued |-> <<"auth.getUser">>]
    ELSE IF NotAuthenticated(getUser(s, ao))
    THEN [result |-> [success |-> FALSE, error |-> "User not authenticated"],
          issued |-> <<"auth.getUser">>]
    ELSE LET u == getUser(s, ao).user
             profileResult == loadProfile(s, u, dbo)
             calls == <<"auth.getUser">> \o profileResult.issued
         IN  IF ~profileResult.result.success
             THEN [result |-> [success |-> FALSE,
                               error |-> ForwardedError(profileResult.result)],
                   issued |-> calls]
             ELSE [result |-> [success |-> TRUE, user |-> u,
                               profile |-> profileResult.result.data],
                   issued |-> calls]

----------------------------------------------------------------------------
(* Inputs of the helper calls *)

Types == allowedTypes \cup {"image/png"}
Sizes == {0, maxSize, maxSize + 1}
Names == {<<"cv", "pdf">>}
Files == [type : Types, size : Sizes, name : Names]

\* profileData objects handed to saveProfile: any subset of the columns
ProfileDatas ==
    {<<>>,
     ("resume_url" :> "https://storage/resumes/x.pdf")
         @@ ("skills" :> << <<"a">>, <<"b">> >>) @@ ("interests" :> << <<"c">> >>)
         @@ ("experience_level" :> "mid"),
     ("user_id" :> "B") @@ ("resume_url" :> "")}

----------------------------------------------------------------------------
(* ProfileForm: initial useState values *)

NoResult == <<>>
EmptyForm == [skills |-> <<>>, interests |-> <<>>, experience_level |-> ""]
NoSubmit ==
    [user |-> NoUser, resumeUrl |-> "", file |-> NoFile, formData |-> EmptyForm,
     n |-> 0, calls |-> <<>>, uploadResult |-> NoResult,
     profileData |-> NoRow, baseline |-> NoRow, saveResult |-> NoResult]

\* who is signed in where: session s1 as A, session s2 as A, as B or as nobody
SignedIn == {a \in [Sessions -> Identities \cup {NoUser}] : a["s1"] = "A"}

Init ==
    /\ auth \in SignedIn
    /\ profiles = {}
    /\ storage = {}
    /\ now = 0
    /\ lastCall = [op |-> "none"]
    /\ loading = TRUE
    /\ saving = FALSE
    /\ user = NoUser
    /\ profile = NoRow
    /\ error = ""
    /\ success = ""
    /\ resumeFile = NoFile
    /\ existingResumeUrl = ""
    /\ formData = EmptyForm
    /\ pc = "mount"
    /\ sub = NoSubmit
    /\ activation = NoResult

----------------------------------------------------------------------------
(* Helper calls made directly by a session *)

\* NOW() advances
Tick ==
    /\ now < MaxTime
    /\ now' = now + 1
    /\ UNCHANGED <<auth, profiles, storage, lastCall>>
    /\ UNCHANGED form

\* a request that is not issued has no outcome of its own
SecondRequest(first, second) == first # "ok" => second = "ok"

UploadResume(s) ==
    \E file \in Files, userId \in Identities, t \in Times, so \in Outcomes :
        LET r == uploadResume(s, file, userId, t, so)
        IN  /\ storage' = r.storage
            /\ lastCall' = [op |-> "upload", file |-> file, userId |-> userId,
                            issued |-> r.issued, result |-> r.result,
                            before |-> storage]
            /\ UNCHANGED <<auth, profiles, now>>
            /\ UNCHANGED form

\* the row of the table that belongs to identity u, or NoRow
RowOf(table, u) == IF RowsOf(table, u) = {} THEN NoRow ELSE CHOOSE r \in RowsOf(table, u) : TRUE

SaveProfile(s) ==
    \E profileData \in ProfileDatas, ao \in Outcomes, t \in Times, dbo \in Outcomes :
        LET r == saveProfile(s, profileData, ao, t, dbo)
        IN  /\ SecondRequest(ao, dbo)
            /\ profiles' = r.profiles
            /\ lastCall' = [op |-> "save", resolved |-> getUser(s, ao).user,
                            threw |-> (ao = "throw"),
                            profileData |-> profileData, clientTime |-> t,
                            issued |-> r.issued, sent |-> r.sent, result |-> r.result,
                            prev |-> RowOf(profiles, getUser(s, ao).user)]
            /\ UNCHANGED <<auth, storage, now>>
            /\ UNCHANGED form

LoadProfile(s) ==
    \E userId \in Identities, dbo \in Outcomes :
        LET r == loadProfile(s, userId, dbo)
        IN  /\ lastCall' = [op |-> "load", caller |-> auth[s], userId |-> userId,
                            dbo |-> dbo, issued |-> r.issued, result |-> r.result]
            /\ UNCHANGED <<auth, profiles, storage, now>>
            /\ UNCHANGED form

GetCurrentUserWithProfile(s) ==
    \E ao \in Outcomes, dbo \in Outcomes :
        LET r == getCurrentUserWithProfile(s, ao, dbo)
        IN  /\ SecondRequest(ao, dbo)
            /\ lastCall' = [op |-> "current", resolved |-> getUser(s, ao).user,
                            threw |-> (ao = "throw"),
                            loaded |-> loadProfile(s, getUser(s, ao).user, dbo).result,
                            issued |-> r.issued, result |-> r.result]
            /\ UNCHANGED <<auth, profiles, storage, now>>
            /\ UNCHANGED form

\* the profile helpers, called from the sessions in any order
Next ==
    \/ Tick
    \/ \E s \in Sessions : SaveProfile(s)
    \/ \E s \in Sessions : LoadProfile(s)
    \/ \E s \in Sessions : GetCurrentUserWithProfile(s)

Spec == Init /\ [][Next]_vars

\* the upload helper, called from the sessions in any order
UploadNext == \E s \in Sessions : UploadResume(s)

UploadSpec == Init /\ [][UploadNext]_vars

----------------------------------------------------------------------------
(* ProfileForm (components/ProfileForm.jsx), open in session FormSession *)

FormSession == "s2"

\* the files the user picks in the form
FormFiles == {f \in Files : f.type \in {"application/pdf", "image/png"} /\ f.size = maxSize}

\* what the user types: the field's name and its new value
FormEdits ==
    {<<"skills", <<"a", ",", " ", "b">>>>, <<"experience_level", "mid">>}

Whitespace == {" "}

\* text.split(','): the pieces between the commas, at least one
RECURSIVE split(_)
split(text) ==
    IF \A i \in DOMAIN text : text[i] # ","
    THEN <<text>>
    ELSE LET i == CHOOSE j \in DOMAIN text :
                      text[j] = "," /\ \A k \in 1 .. (j - 1) : text[k] # ","
         IN  <<SubSeq(text, 1, i - 1)>> \o split(SubSeq(text, i + 1, Len(text)))

\* piece.trim()
RECURSIVE trim(_)
trim(piece) ==
    IF piece = <<>> THEN piece
    ELSE IF Head(piece) \in Whitespace THEN trim(Tail(piece))
    ELSE IF piece[Len(piece)] \in Whitespace THEN trim(SubSeq(piece, 1, Len(piece) - 1))
    ELSE piece

\* mutant: the filter keeps every piece
NonEmpty_all(piece) == TRUE

\* .filter(piece => piece.length > 0)
NonEmpty(piece) == Len(piece) > 0

\* text.split(',').map(x => x.trim()).filter(x => x.length > 0)
ToArray(text) == SelectSeq([i \in DOMAIN split(text) |-> trim(split(text)[i])], NonEmpty)

\* array.join(', ')
RECURSIVE join(_)
join(array) ==
    IF array = <<>> THEN <<>>
    ELSE IF Len(array) = 1 THEN array[1]
    ELSE array[1] \o <<",", " ">> \o join(Tail(array))

\* row.column || ''
OrEmpty(row, column) == IF Has(row, column) THEN row[column] ELSE ""

\* row.column ? row.column.join(', ') : ''
JoinedOrEmpty(row, column) == IF Has(row, column) THEN join(row[column]) ELSE <<>>

\* render: the loading spinner, the Authentication Required card, or the form
View ==
    IF loading THEN "loading"
    ELSE IF user = NoUser THEN "unauthenticated"
    ELSE "form"

\* {error && <p>{error}</p>}, which is part of the form's markup
ErrorShown == View = "form" /\ error # ""

\* {success && <p>{success}</p>}
SuccessShown == View = "form" /\ success # ""

\* mutant: the submit button stays enabled while a submission is in flight
SubmitEnabled_always == View = "form"

\* <button type="submit" disabled={saving}>
SubmitEnabled == View = "form" /\ ~saving

\* useEffect(() => { loadUserData() }, [])
LoadUserData ==
    /\ pc = "mount"
    /\ \E ao \in Outcomes, dbo \in Outcomes :
           LET result == getCurrentUserWithProfile(FormSession, ao, dbo).result
           IN  /\ SecondRequest(ao, dbo)
               /\ activation' = [resolved |-> getUser(FormSession, ao).user,
                                 threw |-> (ao = "throw"), result |-> result]
               /\ IF ~result.success
                  THEN /\ error' = result.error
                       /\ UNCHANGED <<user, profile, existingResumeUrl, formData>>
                  ELSE /\ error' = ""
                       /\ user' = result.user
                       /\ IF result.profile # NoRow
                          THEN /\ profile' = result.profile
                               /\ existingResumeUrl' = OrEmpty(result.profile, "resume_url")
                               /\ formData' =
                                      [skills |-> JoinedOrEmpty(result.profile, "skills"),
                                       interests |-> JoinedOrEmpty(result.profile, "interests"),
                                       experience_level |->
                                           OrEmpty(result.profile, "experience_level")]
                          ELSE UNCHANGED <<profile, existingResumeUrl, formData>>
    /\ loading' = FALSE
    /\ pc' = "idle"
    /\ UNCHANGED <<saving, success, resumeFile, sub, lastCall>>
    /\ UNCHANGED backend

\* handleInputChange: setFormData(prev => ({...prev, [name]: value}))
HandleInputChange ==
    /\ pc # "gone" /\ View = "form"
    /\ \E edit \in FormEdits : formData' = [formData EXCEPT ![edit[1]] = edit[2]]
    /\ UNCHANGED <<loading, saving, user, profile, error, success, resumeFile,
                   existingResumeUrl, pc, sub, activation, lastCall>>
    /\ UNCHANGED backend

\* handleFileChange: e.target.files[0] is a file, or nothing when the dialog is cancelled
HandleFileChange ==
    /\ pc # "gone" /\ View = "form"
    /\ \E file \in FormFiles \cup {NoFile} :
           IF file # NoFile
           THEN resumeFile' = file /\ existingResumeUrl' = ""
           ELSE UNCHANGED <<resumeFile, existingResumeUrl>>
    /\ UNCHANGED <<loading, saving, user, profile, error, success, formData, pc, sub,
                   activation, lastCall>>
    /\ UNCHANGED backend

\* handleSubmit up to its first await: the closure keeps the values of this render
SubmitBegin ==
    /\ pc # "gone" /\ SubmitEnabled
    /\ sub.n < MaxSubmits
    /\ IF user = NoUser
       THEN /\ error' = "User not authenticated"
            /\ UNCHANGED <<saving, success, sub, pc>>
       ELSE /\ saving' = TRUE
            /\ error' = ""
            /\ success' = ""
            /\ sub' = [NoSubmit EXCEPT !.n = sub.n + 1,
                                       !.user = user, !.resumeUrl = existingResumeUrl,
                                       !.file = resumeFile, !.formData = formData]
            /\ pc' = IF resumeFile # NoFile THEN "upload" ELSE "save"
    /\ UNCHANGED <<loading, user, profile, resumeFile, existingResumeUrl, formData,
                   activation, lastCall>>
    /\ UNCHANGED backend

\* mutant: the submission ends without clearing saving
SavingAfterFinally_kept == TRUE

\* finally { setSaving(false) }: the value of saving when handleSubmit has returned
SavingAfterFinally == FALSE

\* mutant: a declined upload does not end the submission
UploadDeclined_ignored(uploadResult) == FALSE

\* if (!uploadResult.success) { setError(uploadResult.error); return }
UploadDeclined(uploadResult) == ~uploadResult.success

\* handleSubmit: await uploadResume(resumeFile, user.id) and what follows it
SubmitUpload ==
    /\ pc = "upload"
    /\ \E t \in Times, so \in Outcomes :
           LET r == uploadResume(FormSession, sub.file, sub.user, t, so)
           IN  /\ r.issued = <<>> => so = "ok"
               /\ storage' = r.storage
               /\ sub' = [sub EXCEPT !.calls = Append(@, "uploadResume"),
                                     !.uploadResult = r.result,
                                     !.resumeUrl = IF r.result.success THEN r.result.url ELSE @]
               /\ IF UploadDeclined(r.result)
                  THEN /\ error' = r.result.error
                       /\ saving' = SavingAfterFinally
                       /\ pc' = "idle"
                  ELSE /\ pc' = "save"
                       /\ UNCHANGED <<error, saving>>
    /\ UNCHANGED <<loading, user, profile, success, resumeFile, existingResumeUrl,
                   formData, activation, lastCall>>
    /\ UNCHANGED <<auth, profiles, now>>

\* the profileData handleSubmit assembles
profileDataOf(resumeUrl, data) ==
    [resume_url |-> resumeUrl,
     skills |-> ToArray(data.skills),
     interests |-> ToArray(data.interests),
     experience_level |-> data.experience_level]

\* handleSubmit: await saveProfile(profileData) and what follows it
SubmitSave ==
    /\ pc = "save"
    /\ \E ao \in Outcomes, t \in Times, dbo \in Outcomes :
           LET profileData == profileDataOf(sub.resumeUrl, sub.formData)
               r == saveProfile(FormSession, profileData, ao, t, dbo)
           IN  /\ SecondRequest(ao, dbo)
               /\ profiles' = r.profiles
               /\ sub' = [sub EXCEPT !.calls = Append(@, "saveProfile"),
                                     !.profileData = profileData,
                                     !.baseline = profile,
                                     !.saveResult = r.result]
               /\ IF ~r.result.success
                  THEN /\ error' = r.result.error
                       /\ UNCHANGED <<profile, success, resumeFile>>
                  ELSE /\ profile' = r.result.data
                       /\ success' = "Profile saved successfully!"
                       /\ resumeFile' = NoFile
                       /\ UNCHANGED error
    /\ saving' = SavingAfterFinally
    /\ pc' = "idle"
    /\ UNCHANGED <<loading, user, existingResumeUrl, formData, activation, lastCall>>
    /\ UNCHANGED <<auth, storage, now>>

\* handleSignOut: await supabase.auth.signOut(), then leave the page
HandleSignOut ==
    /\ pc # "gone" /\ View = "form"
    /\ \E o \in {"ok", "error"} :
           /\ auth' = IF o = "ok" THEN [auth EXCEPT ![FormSession] = NoUser] ELSE auth
           /\ pc' = "gone"
    /\ UNCHANGED <<loading, saving, user, profile, error, success, resumeFile,
                   existingResumeUrl, formData, sub, activation, lastCall>>
    /\ UNCHANGED <<profiles, storage, now>>

\* saveProfile called from another session of the form's identity while the form is open
OtherSessionSave ==
    /\ auth["s1"] = auth[FormSession]
    /\ \E profileData \in ProfileDatas, t \in Times :
           profiles' = saveProfile("s1", profileData, "ok", t, "ok").profiles
    /\ UNCHANGED <<auth, storage, now, lastCall>>
    /\ UNCHANGED form

\* the form in its session, and saveProfile called from the other session meanwhile
FormNext ==
    \/ LoadUserData
    \/ HandleInputChange
    \/ HandleFileChange
    \/ SubmitBegin
    \/ SubmitUpload
    \/ SubmitSave
    \/ HandleSignOut
    \/ OtherSessionSave

FormSpec == Init /\ [][FormNext]_vars

\* the form alone in its session
SubmitNext ==
    \/ LoadUserData
    \/ HandleInputChange
    \/ HandleFileChange
    \/ SubmitBegin
    \/ SubmitUpload
    \/ SubmitSave
    \/ HandleSignOut

\* the form alone, each awaited helper call of a submission returning: the helpers
\* resolve with a result for every outcome of the backend requests they make
FormFair ==
    /\ Init
    /\ [][SubmitNext]_vars
    /\ WF_vars(SubmitUpload)
    /\ WF_vars(SubmitSave)

\* what can be typed into the skills and interests inputs
Chars == {"a", "b", ",", " "}
Texts == UNION {[1 .. n -> Chars] : n \in 0 .. MaxLen}
TextFields == {"skills", "interests"}

\* the form activated for an identity without a profile, a text typed into one of
\* the two inputs and no file staged
ConvertInit ==
    /\ auth = [s \in Sessions |-> "A"]
    /\ profiles = {}
    /\ storage = {}
    /\ now = 0
    /\ lastCall = [op |-> "none"]
    /\ loading = FALSE
    /\ saving = FALSE
    /\ user = "A"
    /\ profile = NoRow
    /\ error = ""
    /\ success = ""
    /\ resumeFile = NoFile
    /\ existingResumeUrl = ""
    /\ \E field \in TextFields, text \in Texts :
           formData = [EmptyForm EXCEPT ![field] = text]
    /\ pc = "idle"
    /\ sub = NoSubmit
    /\ activation = [resolved |-> "A", threw |-> FALSE,
                     result |-> [success |-> TRUE, user |-> "A", profile |-> NoRow]]

\* submissions of the typed text
ConvertNext ==
    \/ SubmitBegin
    \/ SubmitSave

ConvertSpec == ConvertInit /\ [][ConvertNext]_vars

----------------------------------------------------------------------------
(* Properties of the helpers *)

Range(q) == {q[i] : i \in DOMAIN q}
Ids(rows) == {r.id : r \in rows}
IsSave(call) == call.op = "save"

\* C1: after any sequence of saveProfile calls, from one session or several, the
\* table holds at most one row per identity: a successful save leaves exactly one
\* row for its identity, and a save for an identity that has a row keeps that row
\* (same id) instead of adding one.
C1_OneRowPerIdentity ==
    /\ [](\A u \in Identities : Cardinality(RowsOf(profiles, u)) <= 1)
    /\ [][\A u \in Identities :
             /\ Cardinality(RowsOf(profiles', u)) <= 1
             /\ RowsOf(profiles, u) # {}
                    => Ids(RowsOf(profiles', u)) = Ids(RowsOf(profiles, u))
             /\ (IsSave(lastCall') /\ lastCall'.result.success /\ lastCall'.resolved = u)
                    => Cardinality(RowsOf(profiles', u)) = 1]_vars

\* C1 witness: a successful save for an identity that already had its row, the
\* other identity's row beside it
C1_Witness ==
    /\ IsSave(lastCall) /\ lastCall.result.success
    /\ lastCall.prev # NoRow
    /\ auth["s2"] = "A"
    /\ Cardinality(RowsOf(profiles, "A")) = 1

\* C2: uploadResume issues the storage upload exactly when the file's type is one
\* of the three allowed types and its size is at most 10 * 1024 * 1024 bytes; for a
\* file it refuses it returns success = false with a message and the bucket is as
\* it was.
C2_UploadValidation ==
    lastCall.op = "upload" =>
        LET valid == lastCall.file.type \in allowedTypes
                     /\ lastCall.file.size <= 10 * 1024 * 1024
        IN  /\ ("storage.upload" \in Range(lastCall.issued)) <=> valid
            /\ ~valid => /\ lastCall.result.success = FALSE
                         /\ lastCall.result.error # ""
                         /\ lastCall.issued = <<>>
                         /\ storage = lastCall.before

\* C2 witness: a file of exactly 10 MiB of an allowed type was uploaded and stored
C2_Witness ==
    /\ lastCall.op = "upload"
    /\ lastCall.file.size = 10 * 1024 * 1024
    /\ lastCall.result.success
    /\ storage # lastCall.before

\* the result of loadProfile for identity u, asked by u right now, the request
\* answered
LoadedBy(u) == {loadProfile(s, u, "ok").result : s \in {x \in Sessions : auth[x] = u}}

\* C3: a successful saveProfile followed immediately by loadProfile for the same
\* identity returns a profile whose fields equal the fields saved, and whose
\* updated_at is at least the updated_at the row had before the save.
C3_SaveThenLoad ==
    (IsSave(lastCall) /\ lastCall.result.success) =>
        \A got \in LoadedBy(lastCall.resolved) :
            /\ got.success /\ got.data # NoRow
            /\ \A k \in DOMAIN lastCall.profileData :
                   Has(got.data, k) /\ got.data[k] = lastCall.profileData[k]
            /\ lastCall.prev # NoRow => got.data.updated_at >= lastCall.prev.updated_at

\* C3, the part about the fields alone
C3_FieldsRoundTrip ==
    (IsSave(lastCall) /\ lastCall.result.success) =>
        \A got \in LoadedBy(lastCall.resolved) :
            /\ got.success /\ got.data # NoRow
            /\ got.data = lastCall.result.data
            /\ \A k \in DOMAIN lastCall.profileData :
                   Has(got.data, k) /\ got.data[k] = lastCall.profileData[k]

\* C4: loadProfile for an identity that has no row returns success = true with
\* data = null; a request the backend fails returns success = false with a
\* message; and success = true with data = null is never returned while a row for
\* that identity exists.
C4_LoadProfileResults ==
    lastCall.op = "load" =>
        /\ (lastCall.dbo = "ok" /\ RowsOf(profiles, lastCall.userId) = {})
               => lastCall.result = [success |-> TRUE, data |-> NoRow]
        /\ lastCall.dbo # "ok"
               => lastCall.result.success = FALSE /\ lastCall.result.error # ""
        /\ (lastCall.result.success /\ lastCall.result.data = NoRow)
               => RowsOf(profiles, lastCall.userId) = {}

\* C5: getCurrentUserWithProfile with no identity resolved returns success = false
\* with the authentication message and issues no profile load (none either when
\* getUser throws); with the identity resolved and loadProfile declining, it
\* returns loadProfile's error message as it is.
C5_CurrentUserWithProfile ==
    lastCall.op = "current" =>
        /\ lastCall.resolved = NoUser
               => /\ lastCall.result.success = FALSE
                  /\ "profiles.select" \notin Range(lastCall.issued)
                  /\ ~lastCall.threw => lastCall.result.error = "User not authenticated"
        /\ (lastCall.resolved # NoUser /\ ~lastCall.loaded.success)
               => /\ lastCall.result.success = FALSE
                  /\ lastCall.result.error = lastCall.loaded.error
                  /\ "profiles.select" \in Range(lastCall.issued)

\* C5 witness: the identity resolved and the profile load declined
C5_Witness ==
    /\ lastCall.op = "current"
    /\ lastCall.resolved # NoUser
    /\ ~lastCall.loaded.success
    /\ lastCall.result.error = "Failed to load profile: network error"

\* C6: saveProfile with no identity resolved returns success = false with the
\* unauthenticated reason, issues no upsert and leaves the table as it was.
C6_SaveUnauthenticated ==
    [][(IsSave(lastCall') /\ lastCall'.resolved = NoUser)
           => /\ lastCall'.result.success = FALSE
              /\ ~lastCall'.threw => lastCall'.result.error = "User not authenticated"
              /\ "profiles.upsert" \notin Range(lastCall'.issued)
              /\ profiles' = profiles]_vars

\* C6 witness: a save without identity against a table that holds rows
C6_Witness ==
    /\ IsSave(lastCall)
    /\ lastCall.resolved = NoUser /\ ~lastCall.threw
    /\ lastCall.result.error = "User not authenticated"
    /\ profiles # {}

\* C7: for every field set the caller supplies, the row saveProfile upserts has
\* user_id equal to the current identity's id and the fresh timestamp, and a save
\* by one identity neither creates nor changes a row of another identity.
C7_UpsertsOwnRow ==
    [][(IsSave(lastCall') /\ "profiles.upsert" \in Range(lastCall'.issued))
           => /\ lastCall'.sent.user_id = lastCall'.resolved
              /\ lastCall'.sent.updated_at = lastCall'.clientTime
              /\ \A u \in Identities \ {lastCall'.resolved} :
                     RowsOf(profiles', u) = RowsOf(profiles, u)]_vars

\* C7, the part about the other identities' rows alone
C7_OthersRowsUntouched ==
    [][IsSave(lastCall')
           => \A u \in Identities \ {lastCall'.resolved} :
                  RowsOf(profiles', u) = RowsOf(profiles, u)]_vars

----------------------------------------------------------------------------
(* Properties of the form *)

\* a resume_url that is unset: NULL in the row, '' in the form
Unset(row, column) == OrEmpty(row, column)

\* C8: whenever a submission runs with no staged file, the resume_url it passes to
\* saveProfile is the resume_url of the baseline profile (the row last loaded or
\* last returned by a successful save), an unset one counting as ''.
C8_ResumeUrlKept ==
    ("saveProfile" \in Range(sub.calls) /\ sub.file = NoFile)
        => sub.profileData.resume_url = Unset(sub.baseline, "resume_url")

\* C8, for the first submission after the form was loaded, with no file picked yet
C8_FirstSubmissionKeepsUrl ==
    ("saveProfile" \in Range(sub.calls) /\ sub.file = NoFile /\ sub.n = 1
     /\ resumeFile = NoFile /\ existingResumeUrl # "")
        => sub.profileData.resume_url = Unset(sub.baseline, "resume_url")

\* C9: in a submission with a staged file the upload has completed, successfully,
\* before saveProfile is called; when the upload declines, the submission calls
\* saveProfile not at all and ends with the upload's message as the error, saving
\* off and the form shown, and the step that takes the decline leaves the table
\* as it was.
C9_UploadBeforeSave ==
    /\ []((sub.file # NoFile /\ (pc = "save" \/ "saveProfile" \in Range(sub.calls)))
             => /\ sub.calls[1] = "uploadResume"
                /\ sub.uploadResult # NoResult /\ sub.uploadResult.success
                /\ sub.resumeUrl = sub.uploadResult.url)
    /\ [][(pc = "upload" /\ sub'.uploadResult # NoResult /\ ~sub'.uploadResult.success)
              => /\ sub'.calls = <<"uploadResume">>
                 /\ pc' = "idle"
                 /\ error' = sub'.uploadResult.error /\ error' # ""
                 /\ saving' = FALSE
                 /\ View' = "form"
                 /\ profiles' = profiles]_vars
    /\ [][(pc = "idle" /\ sub.uploadResult # NoResult /\ ~sub.uploadResult.success)
              => "saveProfile" \notin Range(sub'.calls)]_vars

\* C9 witness: a submission whose upload declined has ended, the table holding a row
C9_Witness ==
    /\ pc = "idle"
    /\ sub.file # NoFile
    /\ sub.uploadResult # NoResult /\ ~sub.uploadResult.success
    /\ sub.calls = <<"uploadResume">>
    /\ error = sub.uploadResult.error
    /\ profiles # {}

\* C10: when activation fails for a resolved identity (the profile load declined),
\* the form ends showing that message; the unauthenticated view shows only when no
\* identity is resolved.
C10_ActivationError ==
    (pc = "idle" /\ activation.resolved # NoUser /\ ~activation.result.success)
        => /\ ErrorShown /\ error = activation.result.error
           /\ View # "unauthenticated"

\* C10, what the form keeps of the failure: the message is in the error cell
C10_ErrorKept ==
    (pc = "idle" /\ sub.n = 0 /\ ~activation.result.success)
        => error = activation.result.error /\ ~loading

\* C11: at most one submission is in flight at any time: while a submission is
\* between its begin and its end saving is on and the submit button is disabled;
\* a submission begins only when none is in flight; and every upload or save call
\* the form issues belongs to the one submission in flight, which issues at most
\* one upload and at most one save.
C11_OneSubmissionInFlight ==
    /\ [](pc \in {"upload", "save"} => (saving /\ ~SubmitEnabled))
    /\ [](sub.calls \in {<<>>, <<"uploadResume">>, <<"saveProfile">>,
                         <<"uploadResume", "saveProfile">>})
    /\ [][sub'.n # sub.n
              => /\ pc = "idle" /\ ~saving
                 /\ sub'.n = sub.n + 1
                 /\ sub'.calls = <<>>]_vars
    /\ [][sub'.calls # sub.calls /\ sub'.n = sub.n
              => /\ pc \in {"upload", "save"} /\ saving
                 /\ Len(sub'.calls) = Len(sub.calls) + 1]_vars

\* C11 witness: the second submission is in flight, its upload done and its save
\* pending, the button disabled
C11_Witness ==
    /\ sub.n = 2
    /\ pc = "save" /\ saving /\ ~SubmitEnabled
    /\ sub.calls = <<"uploadResume">>

\* C12: every submission that has set saving ends with saving off, the form
\* shown and ready for the next submission (or the page has been left by signing
\* out), each helper call returning; at that end exactly one of the error notice
\* and the success notice is shown: the helper's message when the upload or the
\* save declines or its request throws, the success notice when the save succeeds.
C12_SubmissionReturns ==
    /\ (saving /\ pc # "gone") ~> ((~saving /\ pc = "idle" /\ SubmitEnabled) \/ pc = "gone")
    /\ [][(saving /\ ~saving')
              => /\ pc' = "idle" /\ View' = "form"
                 /\ ErrorShown' # SuccessShown'
                 /\ (sub'.saveResult = NoResult)
                        => (~sub'.uploadResult.success /\ error' = sub'.uploadResult.error)
                 /\ (sub'.saveResult # NoResult /\ ~sub'.saveResult.success)
                        => error' = sub'.saveResult.error
                 /\ (sub'.saveResult # NoResult /\ sub'.saveResult.success)
                        => success' = "Profile saved successfully!"]_vars
    /\ []((pc = "idle" /\ sub.n > 0) => (~saving /\ ErrorShown # SuccessShown))

\* C12 witness: the second submission has ended on a save whose request threw, the
\* first having ended too; the error notice is shown and the success notice is not
C12_Witness ==
    /\ sub.n = 2 /\ pc = "idle" /\ ~saving
    /\ sub.calls = <<"uploadResume", "saveProfile">>
    /\ ~sub.saveResult.success
    /\ sub.saveResult.error = "Failed to save profile: " \o ThrownMessage
    /\ ErrorShown /\ ~SuccessShown

\* the comma-separated segments of a text, each given by the two positions that
\* bound it: a comma, the position before the text or the position after it
Delimiters(text) == {0, Len(text) + 1} \cup {i \in DOMAIN text : text[i] = ","}
Segments(text) ==
    {s \in Delimiters(text) \X Delimiters(text) :
        s[1] < s[2] /\ \A d \in Delimiters(text) : ~(s[1] < d /\ d < s[2])}

\* the positions of a segment that hold something other than whitespace
Inked(text, s) == {i \in (s[1] + 1) .. (s[2] - 1) : text[i] \notin {" "}}
Least(S) == CHOOSE i \in S : \A j \in S : i <= j
Greatest(S) == CHOOSE i \in S : \A j \in S : j <= i

\* the segments that are not empty once trimmed, and the place of one among them
Kept(text) == {s \in Segments(text) : Inked(text, s) # {}}
Place(text, s) == Cardinality({k \in Kept(text) : k[1] <= s[1]})

\* array is the trimmed non-empty segments of text, in the text's order
IsTrimmedSegments(array, text) ==
    /\ Len(array) = Cardinality(Kept(text))
    /\ \A s \in Kept(text) :
           array[Place(text, s)] =
               SubSeq(text, Least(Inked(text, s)), Greatest(Inked(text, s)))

\* C13: the skills and interests arrays a submission passes to saveProfile are,
\* for every text typed, the text's comma-separated segments with the surrounding
\* whitespace trimmed and the empty ones dropped, in the text's order, duplicates
\* kept: "a, b, a" gives ["a", "b", "a"] and " , ," gives the empty sequence.
C13_SkillsConversion ==
    /\ sub.profileData # NoRow
           => /\ IsTrimmedSegments(sub.profileData.skills, sub.formData.skills)
              /\ IsTrimmedSegments(sub.profileData.interests, sub.formData.interests)
    /\ ToArray(<<"a", ",", " ", "b", ",", " ", "a">>) = <<(<<"a">>), (<<"b">>), (<<"a">>)>>
    /\ ToArray(<<" ", ",", " ", ",">>) = <<>>
    /\ (sub.profileData # NoRow /\ sub.formData.skills = <<" ", ",", " ", ",">>)
           => sub.profileData.skills = <<>>

\* C13 witness: a submission has converted "a,a " typed into skills: the trailing
\* blank trimmed, both segments kept
C13_Witness ==
    /\ sub.profileData # NoRow
    /\ sub.formData.skills = <<"a", ",", "a", " ">>
    /\ sub.profileData.skills = <<(<<"a">>), (<<"a">>)>>
    /\ sub.saveResult.success

====
